---------------------------- MODULE Spec2Model ----------------------------
(***************************************************************************)
(* The "unique" and "exists" database validation rules that                *)
(* defineValidationRules registers with VineJS (src/bindings/vinejs.ts).   *)
(*                                                                         *)
(* A rule invocation is an async function.  Between two awaits its code    *)
(* runs to completion, so every action below is one such segment:          *)
(*   Invoke          entry up to the first await (or an early return)      *)
(*   CallbackSettles the callback's promise settles, up to the return      *)
(*   FilterSettles   the awaited filter result settles, up to query.first()*)
(*   FirstSettles    the database answers, up to the return                *)
(*   Return          the validator takes the settled promise               *)
(* The query builder, the database and the user's callback / filter hook   *)
(* are collaborators: a callback is modelled by the boolean it resolves to *)
(* or the error it throws, a filter hook by the where clause it adds, when *)
(* it adds it, or the error it throws.  Report calls are those the rule's  *)
(* own code makes.                                                         *)
(***************************************************************************)
EXTENDS Integers, Sequences, FiniteSets, TLC

VARIABLES store, collationCI, field, frame, queries

vars == <<store, collationCI, field, frame, queries>>

(***************************************************************************)
(* Bounds and the data the tests use.                                      *)
(***************************************************************************)
MaxRows == 2

UNDEF == "undefined"
NULL == "NULL"
db == "db"

Fields == {"username", "email"}
Values == {"foo", "FOO"}
Rules == {"unique", "exists"}

\* The database's lower(): 'FOO' and 'foo' both fold to 'foo'.
lower(v) == IF v = "FOO" THEN "foo" ELSE v

Rows == [email : Values, country_id : {NULL, "1"}]
Stores == {S \in SUBSET Rows : Cardinality(S) <= MaxRows}

messages ==
    ("database.unique" :> "The {{ field }} has already been taken") @@
    ("database.exists" :> "The selected {{ field }} is invalid")

(***************************************************************************)
(* Rule configurations: a callback, or an options record.  An omitted      *)
(* caseInsensitive is FALSE (both are falsy), an omitted filter has mode   *)
(* "none".  A filter hook adds one where clause, in its synchronous part   *)
(* (mode "sync") or after a suspension of its own (mode "async").          *)
(***************************************************************************)
NoFilter == [mode |-> "none", clause |-> "none"]

FilterHooks ==
    { [mode |-> "sync", clause |-> "whereNotNull"],
      [mode |-> "async", clause |-> "whereNull"] }

Callbacks ==
    { [kind |-> "function", table |-> UNDEF, column |-> UNDEF,
       connection |-> UNDEF, caseInsensitive |-> FALSE, filter |-> NoFilter] }

Options ==
    [ kind : {"options"}, table : {"users"}, column : {"email"},
      connection : {UNDEF}, caseInsensitive : BOOLEAN,
      filter : {NoFilter} \cup FilterHooks ]

Configs == Callbacks \cup Options

(***************************************************************************)
(* The query builder and the database.                                     *)
(***************************************************************************)
NoQuery == [table |-> UNDEF, select |-> UNDEF, connection |-> UNDEF, wheres |-> <<>>]

\* db.connection(connection).from(table).select(column): a new builder
connection_from_select(connection, table, column) ==
    [ table |-> table, select |-> column,
      connection |-> IF connection = UNDEF THEN "primary" ELSE connection,
      wheres |-> <<>> ]

\* query.where(column, value)
where(query, column, value) ==
    [query EXCEPT !.wheres = Append(@, [type |-> "where", column |-> column, value |-> value])]

\* query.whereRaw(`lower(${column}) = ?`, [db.raw(`lower(?)`, [value])])
whereRaw(query, column, value) ==
    [query EXCEPT !.wheres = Append(@, [type |-> "whereRaw", column |-> column, value |-> value])]

\* The clause a filter hook adds: query.whereNotNull / whereNull('country_id')
applyHook(query, hook) ==
    [query EXCEPT !.wheres = Append(@, [type |-> hook.clause, column |-> "country_id", value |-> UNDEF])]

\* The comparison column = value under the store's collation
Equal(a, b, ci) == IF ci THEN lower(a) = lower(b) ELSE a = b

\* Whether one row satisfies one where clause
Satisfies(row, w, ci) ==
    CASE w.type = "where" -> Equal(row[w.column], w.value, ci)
      [] w.type = "whereRaw" -> Equal(lower(row[w.column]), lower(w.value), ci)
      [] w.type = "whereNotNull" -> row[w.column] # NULL
      [] w.type = "whereNull" -> row[w.column] = NULL
      [] OTHER -> FALSE

\* The rows a query selects: one row satisfies every where clause
Matching(query, rows, ci) ==
    {r \in rows : \A k \in 1..Len(query.wheres) : Satisfies(r, query.wheres[k], ci)}

\* query.first(): the rows it may return, {} standing for null
first(query, rows, ci) ==
    IF Matching(query, rows, ci) = {} THEN {{}}
    ELSE {{r} : r \in Matching(query, rows, ci)}

(***************************************************************************)
(* The field under validation and the frame of a rule invocation.          *)
(***************************************************************************)
NoField == [value |-> UNDEF, isValid |-> TRUE, reports |-> <<>>]

\* pc: where the async function stands; yields: the awaits it has reached;
\* fault: the error a collaborator raised in this invocation, if any
NoFrame ==
    [ pc |-> "idle", rule |-> UNDEF, callbackOrOptions |-> CHOOSE c \in Callbacks : TRUE,
      query |-> UNDEF, executed |-> NoQuery, error |-> UNDEF, fault |-> UNDEF,
      reportCalls |-> 0, queriesIssued |-> 0, callbackCalls |-> 0, hookCalls |-> 0,
      yields |-> 0, cbArgs |-> <<>>, cbResult |-> <<>> ]

ruleName(rule) == IF rule = "unique" THEN "database.unique" ELSE "database.exists"

\* field.report(messages[name], name, field)
report(fld, name) ==
    [fld EXCEPT !.reports = Append(@, [message |-> messages[name], rule |-> name])]

\* Variant of skips: the isValid guard is missing
neverSkips(fld) == FALSE

\* if (!field.isValid) return
skips(fld) == ~fld.isValid

\* Variant of callbackFails: exists takes a true result for the violation
callbackFailsWhenTrue(rule, result) ==
    IF rule = "unique" THEN ~result ELSE result

\* if (!isUnique) / if (!exists): the callback's result means a violation
callbackFails(rule, result) ==
    IF rule = "unique" THEN ~result ELSE ~result

\* Variant of rowFails: both rules report when no row is found
rowFailsWhenAbsent(rule, row) == row = {}

\* Variant of rowFails: both rules report when a row is found
rowFailsWhenFound(rule, row) == row # {}

\* if (row) for unique, if (!row) for exists: the fetched row means a violation
rowFails(rule, row) ==
    IF rule = "unique" THEN row # {} ELSE row = {}

\* Variant of equalityPredicate: caseInsensitive is not looked at
equalityIgnoringFlag(query, column, value, caseInsensitive) ==
    where(query, column, value)

\* if (caseInsensitive) query.whereRaw(...) else query.where(...)
equalityPredicate(query, column, value, caseInsensitive) ==
    IF caseInsensitive THEN whereRaw(query, column, value)
    ELSE where(query, column, value)

\* Variant of newQuery: one builder object kept and used by every invocation
sharedQuery(f) == "email"

\* The builder object an invocation's query lives in: a new one per invocation
newQuery(f) == f

\* Variant of throw: the error is caught and the invocation returns normally
swallow(fr, err) == [fr EXCEPT !.pc = "done"]

\* Variant of throw: a failed query is issued a second time
retryOnce(fr, err) ==
    IF err = "QueryError" /\ fr.queriesIssued < 2
    THEN [fr EXCEPT !.queriesIssued = @ + 1]
    ELSE [fr EXCEPT !.pc = "failed", !.error = err]

\* Variant of throw: the error is caught and the check abandoned, its promise
\* never settling
abandon(fr, err) == [fr EXCEPT !.pc = "abandoned", !.error = err]

\* An error thrown in the async function rejects its promise: nothing catches it
throw(fr, err) == [fr EXCEPT !.pc = "failed", !.error = err]

\* A collaborator raises err in this invocation
raised(fr, err) == [fr EXCEPT !.fault = err]

\* const row = await query.first(): the query is sent and the function suspends
awaitFirst(fr, query) ==
    [fr EXCEPT !.pc = "await_first", !.executed = query,
               !.queriesIssued = @ + 1, !.yields = @ + 1]

\* Variant of awaitFilter: the hook's result is not awaited before query.first()
firstWithoutAwaitingFilter(fr, query) == awaitFirst(fr, query)

\* await filter?.(query, value, field): the function suspends on the hook's result
awaitFilter(fr, query) ==
    [fr EXCEPT !.pc = "await_filter", !.yields = @ + 1]

\* const isUnique = await callbackOrOptions(db, value, field)
awaitCallback(fr, value) ==
    [fr EXCEPT !.pc = "await_callback", !.callbackCalls = @ + 1,
               !.cbArgs = <<db, value>>, !.yields = @ + 1]

\* The frame and the field after a violation is (or is not) reported
settle(f, fr, violated) ==
    /\ frame' = [frame EXCEPT ![f] =
                    [fr EXCEPT !.pc = "done",
                               !.reportCalls = IF violated THEN @ + 1 ELSE @]]
    /\ field' = [field EXCEPT ![f] =
                    IF violated THEN report(@, ruleName(fr.rule)) ELSE @]

(***************************************************************************)
(* Init: the rules are registered, the table holds some rows, no field is  *)
(* under validation.                                                       *)
(***************************************************************************)
Init ==
    /\ store \in Stores
    /\ collationCI \in BOOLEAN
    /\ field = [f \in Fields |-> NoField]
    /\ frame = [f \in Fields |-> NoFrame]
    /\ queries = [f \in Fields |-> NoQuery]

(***************************************************************************)
(* Invoke: the validator calls the rule on field f; the code runs from the *)
(* entry to its first await, or returns.                                   *)
(***************************************************************************)
Invoke(f, rule, callbackOrOptions, value, isValid, hookThrows) ==
    /\ frame[f].pc = "idle"
    /\ LET fld == [NoField EXCEPT !.value = value, !.isValid = isValid]
           fr == [NoFrame EXCEPT !.rule = rule, !.callbackOrOptions = callbackOrOptions]
           o == callbackOrOptions
       IN  IF skips(fld)
           THEN /\ field' = [field EXCEPT ![f] = fld]
                /\ frame' = [frame EXCEPT ![f] = [fr EXCEPT !.pc = "done"]]
                /\ UNCHANGED queries
           ELSE IF o.kind = "function"
           THEN /\ field' = [field EXCEPT ![f] = fld]
                /\ frame' = [frame EXCEPT ![f] = awaitCallback(fr, value)]
                /\ UNCHANGED queries
           ELSE LET q0 == connection_from_select(o.connection, o.table, o.column)
                    q1 == equalityPredicate(q0, o.column, value, o.caseInsensitive)
                    q2 == IF o.filter.mode = "sync" THEN applyHook(q1, o.filter) ELSE q1
                    id == newQuery(f)
                    fq == [fr EXCEPT !.query = id,
                                     !.hookCalls = IF o.filter.mode = "none" THEN @ ELSE @ + 1]
                IN  /\ field' = [field EXCEPT ![f] = fld]
                    /\ queries' = [queries EXCEPT ![id] = q2]
                    /\ frame' = [frame EXCEPT ![f] =
                                    IF o.filter.mode = "sync" /\ hookThrows
                                    THEN throw(raised(fq, "FilterError"), "FilterError")
                                    ELSE awaitFilter(fq, q2)]
    /\ UNCHANGED <<store, collationCI>>

(***************************************************************************)
(* CallbackSettles: the callback's promise resolves to a boolean or        *)
(* rejects; the code runs to its return.                                   *)
(***************************************************************************)
CallbackSettles(f, rejects, result) ==
    /\ frame[f].pc = "await_callback"
    /\ IF rejects
       THEN /\ frame' = [frame EXCEPT ![f] = throw(raised(@, "CallbackError"), "CallbackError")]
            /\ UNCHANGED field
       ELSE settle(f, [frame[f] EXCEPT !.cbResult = <<result>>],
                   callbackFails(frame[f].rule, result))
    /\ UNCHANGED <<store, collationCI, queries>>

(***************************************************************************)
(* FilterSettles: the awaited filter result settles (an async hook has     *)
(* added its clause, or rejects); the code calls query.first().            *)
(***************************************************************************)
FilterSettles(f, rejects) ==
    /\ frame[f].pc = "await_filter"
    /\ LET o == frame[f].callbackOrOptions
           id == frame[f].query
           q == IF o.filter.mode = "async" THEN applyHook(queries[id], o.filter)
                ELSE queries[id]
       IN  IF o.filter.mode = "async" /\ rejects
           THEN /\ frame' = [frame EXCEPT ![f] = throw(raised(@, "FilterError"), "FilterError")]
                /\ UNCHANGED queries
           ELSE /\ queries' = [queries EXCEPT ![id] = q]
                /\ frame' = [frame EXCEPT ![f] = awaitFirst(@, q)]
    /\ UNCHANGED <<store, collationCI, field>>

(***************************************************************************)
(* FirstSettles: the database answers the query with a row, with null, or  *)
(* with an error; the code runs to its return.                             *)
(***************************************************************************)
FirstSettles(f, rejects) ==
    /\ frame[f].pc = "await_first"
    /\ IF rejects
       THEN /\ frame' = [frame EXCEPT ![f] = throw(raised(@, "QueryError"), "QueryError")]
            /\ UNCHANGED field
       ELSE \E row \in first(frame[f].executed, store, collationCI) :
                settle(f, frame[f], rowFails(frame[f].rule, row))
    /\ UNCHANGED <<store, collationCI, queries>>

(***************************************************************************)
(* Return: the validator has taken the settled promise; the field and the  *)
(* rule are free for the next validation.                                  *)
(***************************************************************************)
Return(f) ==
    /\ frame[f].pc \in {"done", "failed"}
    /\ frame' = [frame EXCEPT ![f] = NoFrame]
    /\ field' = [field EXCEPT ![f] = NoField]
    /\ queries' = [queries EXCEPT ![f] = NoQuery]
    /\ UNCHANGED <<store, collationCI>>

Next ==
    \/ \E f \in Fields, rule \in Rules, c \in Configs, v \in Values,
          isValid \in BOOLEAN, hookThrows \in BOOLEAN :
            Invoke(f, rule, c, v, isValid, hookThrows)
    \/ \E f \in Fields, rejects \in BOOLEAN, result \in BOOLEAN :
            CallbackSettles(f, rejects, result)
    \/ \E f \in Fields, rejects \in BOOLEAN : FilterSettles(f, rejects)
    \/ \E f \in Fields, rejects \in BOOLEAN : FirstSettles(f, rejects)
    \/ \E f \in Fields : Return(f)

Spec == Init /\ [][Next]_vars

(***************************************************************************)
(* The awaited collaborator of field f's invocation responds and the       *)
(* event loop resumes the function.  FairSpec assumes that a response that *)
(* stays possible does come: the callback, the filter hook and the data    *)
(* source each eventually respond.  Nothing is assumed of the validator    *)
(* (Invoke, Return).                                                       *)
(***************************************************************************)
Settles(f) ==
    \/ \E rejects \in BOOLEAN, result \in BOOLEAN : CallbackSettles(f, rejects, result)
    \/ \E rejects \in BOOLEAN : FilterSettles(f, rejects)
    \/ \E rejects \in BOOLEAN : FirstSettles(f, rejects)

FairSpec == Init /\ [][Next]_vars /\ \A f \in Fields : WF_vars(Settles(f))

(***************************************************************************)
(* What the properties speak of.                                           *)
(***************************************************************************)
Started(f) == frame[f].pc # "idle"
Done(f) == frame[f].pc = "done"
IsOptions(f) == Started(f) /\ frame[f].callbackOrOptions.kind = "options"
IsCallback(f) == Started(f) /\ frame[f].callbackOrOptions.kind = "function"
ValidOnEntry(f) == field[f].isValid

UniqueReport ==
    [message |-> "The {{ field }} has already been taken", rule |-> "database.unique"]
ExistsReport ==
    [message |-> "The selected {{ field }} is invalid", rule |-> "database.exists"]

\* The stored value equals v as the query of options o compares them
ValueMatches(r, o, v) ==
    IF o.caseInsensitive \/ collationCI
    THEN lower(r[o.column]) = lower(v)
    ELSE r[o.column] = v

\* The row passes what the filter hook of options o asks for
FilterAdmits(r, o) ==
    /\ o.filter.clause = "whereNotNull" => r.country_id # NULL
    /\ o.filter.clause = "whereNull" => r.country_id = NULL

\* The query of options o for value v returns a row
QueryReturnsRow(o, v) ==
    \E r \in store : ValueMatches(r, o, v) /\ FilterAdmits(r, o)

(***************************************************************************)
(* C1: an options-variant unique invocation on a field valid on entry has, *)
(* at its return, reported the field exactly once with 'database.unique'   *)
(* and its default message if the query (equality on the column, folded    *)
(* when caseInsensitive, and the filter's clause) returns a row, and has   *)
(* reported nothing if it returns none.                                    *)
(***************************************************************************)
C1_UniqueReportsIffRow ==
    \A f \in Fields :
        (Done(f) /\ IsOptions(f) /\ ValidOnEntry(f) /\ frame[f].rule = "unique")
        => field[f].reports =
             IF QueryReturnsRow(frame[f].callbackOrOptions, field[f].value)
             THEN <<UniqueReport>> ELSE <<>>

\* A unique check that folded the case to find the stored value and reported
C1_Witness ==
    \E f \in Fields :
        /\ Done(f) /\ IsOptions(f) /\ ValidOnEntry(f) /\ frame[f].rule = "unique"
        /\ frame[f].callbackOrOptions.caseInsensitive
        /\ ~collationCI
        /\ \A r \in store : r.email # field[f].value
        /\ field[f].reports = <<UniqueReport>>

(***************************************************************************)
(* C2: on the same store, options and value, with the field valid, the     *)
(* exists rule reports exactly when the unique rule does not: it reports   *)
(* 'database.exists' with its default message iff the query returns no     *)
(* row, so exactly one of the two rules reports.                           *)
(***************************************************************************)
C2_ExistsNegatesUnique ==
    /\ \A g \in Fields :
        (Done(g) /\ IsOptions(g) /\ ValidOnEntry(g) /\ frame[g].rule = "exists")
        => field[g].reports =
             IF QueryReturnsRow(frame[g].callbackOrOptions, field[g].value)
             THEN <<>> ELSE <<ExistsReport>>
    /\ \A f, g \in Fields :
        ( /\ Done(f) /\ IsOptions(f) /\ ValidOnEntry(f) /\ frame[f].rule = "unique"
          /\ Done(g) /\ IsOptions(g) /\ ValidOnEntry(g) /\ frame[g].rule = "exists"
          /\ frame[f].callbackOrOptions = frame[g].callbackOrOptions
          /\ field[f].value = field[g].value )
        => /\ (field[f].reports = <<>>) # (field[g].reports = <<>>)
           /\ field[f].reports \in {<<>>, <<UniqueReport>>}
           /\ field[g].reports \in {<<>>, <<ExistsReport>>}

\* Both rules have run on the same inputs and it is the exists rule that reported
C2_Witness ==
    \E f, g \in Fields :
        /\ Done(f) /\ IsOptions(f) /\ ValidOnEntry(f) /\ frame[f].rule = "unique"
        /\ Done(g) /\ IsOptions(g) /\ ValidOnEntry(g) /\ frame[g].rule = "exists"
        /\ frame[f].callbackOrOptions = frame[g].callbackOrOptions
        /\ field[f].value = field[g].value
        /\ field[f].reports = <<>>
        /\ field[g].reports = <<ExistsReport>>

(***************************************************************************)
(* C3: when field.isValid is false on entry, the invocation (either rule,  *)
(* either variant) returns at once: it builds and issues no query, calls   *)
(* neither the callback nor the filter hook, and reports nothing.          *)
(***************************************************************************)
C3_SkipInvalidField ==
    \A f \in Fields :
        (Started(f) /\ ~ValidOnEntry(f))
        => /\ Done(f)
           /\ frame[f].queriesIssued = 0
           /\ queries[f] = NoQuery
           /\ frame[f].callbackCalls = 0
           /\ frame[f].hookCalls = 0
           /\ frame[f].reportCalls = 0
           /\ field[f].reports = <<>>

\* Both variants skipped: a callback on one invalid field, options with a
\* filter hook on the other
C3_Witness ==
    \E f, g \in Fields :
        /\ Done(f) /\ ~ValidOnEntry(f) /\ IsCallback(f)
        /\ Done(g) /\ ~ValidOnEntry(g) /\ IsOptions(g)
        /\ frame[g].callbackOrOptions.filter.mode # "none"

(***************************************************************************)
(* C4: in the callback variant on a field valid on entry, the callback is  *)
(* called with the data source handle and the value under validation; if   *)
(* it resolves to false the invocation reports once, 'database.unique' for *)
(* unique and 'database.exists' for exists, each with its default message; *)
(* if it resolves to true the invocation reports nothing.                  *)
(***************************************************************************)
C4_CallbackResultDecides ==
    \A f \in Fields :
        (IsCallback(f) /\ ValidOnEntry(f))
        => /\ frame[f].cbArgs = <<"db", field[f].value>>
           /\ Done(f) =>
                /\ frame[f].cbResult = <<FALSE>> =>
                     /\ frame[f].reportCalls = 1
                     /\ field[f].reports =
                          IF frame[f].rule = "unique"
                          THEN <<UniqueReport>> ELSE <<ExistsReport>>
                /\ frame[f].cbResult = <<TRUE>> =>
                     /\ frame[f].reportCalls = 0
                     /\ field[f].reports = <<>>

\* The same convention for both rules: each has a callback that resolved
\* to false, and each has reported
C4_Witness ==
    \E f, g \in Fields :
        /\ Done(f) /\ IsCallback(f) /\ ValidOnEntry(f) /\ frame[f].rule = "unique"
        /\ Done(g) /\ IsCallback(g) /\ ValidOnEntry(g) /\ frame[g].rule = "exists"
        /\ frame[f].cbResult = <<FALSE>> /\ field[f].reports = <<UniqueReport>>
        /\ frame[g].cbResult = <<FALSE>> /\ field[g].reports = <<ExistsReport>>

(***************************************************************************)
(* C5: when the query execution, the filter hook or the callback fails,    *)
(* the invocation ends in failure with that same error, it has made no     *)
(* report on the field, and the query has not been issued again.           *)
(***************************************************************************)
C5_FailurePropagates ==
    \A f \in Fields :
        frame[f].fault # UNDEF
        => /\ frame[f].pc = "failed"
           /\ frame[f].error = frame[f].fault
           /\ frame[f].reportCalls = 0
           /\ field[f].reports = <<>>
           /\ frame[f].queriesIssued = IF frame[f].fault = "QueryError" THEN 1 ELSE 0

\* A query that failed on one field while a filter hook failed on the other
C5_Witness ==
    \E f, g \in Fields :
        /\ frame[f].fault = "QueryError" /\ frame[f].pc = "failed"
        /\ frame[g].fault = "FilterError" /\ frame[g].pc = "failed"
        /\ frame[g].callbackOrOptions.filter.mode = "async"

(***************************************************************************)
(* C6: at every point of an invocation the field has been reported at most *)
(* once and at most one query has been issued; in the callback path (field *)
(* valid on entry) the callback has been called exactly once and the rule  *)
(* has built and issued no query of its own.                               *)
(***************************************************************************)
C6_AtMostOneReportAndQuery ==
    \A f \in Fields :
        /\ frame[f].reportCalls \in {0, 1}
        /\ Len(field[f].reports) = frame[f].reportCalls
        /\ frame[f].queriesIssued \in {0, 1}
        /\ (IsCallback(f) /\ ValidOnEntry(f))
           => /\ frame[f].callbackCalls = 1
              /\ frame[f].queriesIssued = 0
              /\ queries[f] = NoQuery
        /\ IsOptions(f) => frame[f].callbackCalls = 0

\* One invocation has issued its query and reported; a callback invocation
\* has returned beside it
C6_Witness ==
    \E f, g \in Fields :
        /\ Done(f) /\ IsOptions(f) /\ frame[f].queriesIssued = 1 /\ frame[f].reportCalls = 1
        /\ Done(g) /\ IsCallback(g) /\ ValidOnEntry(g) /\ frame[g].callbackCalls = 1

\* The where clauses the rule and its filter hook add for options o and value v
EqualityClause(o, v) ==
    [ type |-> IF o.caseInsensitive THEN "whereRaw" ELSE "where",
      column |-> o.column, value |-> v ]
HookClause(o) == [type |-> o.filter.clause, column |-> "country_id", value |-> UNDEF]

\* Some stored row has the value, and the filter hook excludes every such row
OnlyMatchesExcluded(o, v) ==
    /\ \E r \in store : ValueMatches(r, o, v)
    /\ \A r \in store : ValueMatches(r, o, v) => ~FilterAdmits(r, o)

(***************************************************************************)
(* C7: with a filter hook, the hook is called when the equality predicate  *)
(* is already the query's first clause and before the query is issued; the *)
(* query is issued only once the hook's result has settled, then carrying  *)
(* the equality predicate followed by the hook's clause; a row is found    *)
(* only if one row satisfies both, so unique passes when the filter        *)
(* excludes every row with the value, and exists passes only when a row    *)
(* with the value also passes the filter.                                  *)
(***************************************************************************)
C7_FilterComposesWithAnd ==
    \A f \in Fields :
        (IsOptions(f) /\ ValidOnEntry(f) /\ frame[f].callbackOrOptions.filter.mode # "none")
        => LET o == frame[f].callbackOrOptions
               v == field[f].value
               q == queries[frame[f].query]
           IN  /\ frame[f].hookCalls = 1
               /\ frame[f].pc = "await_filter" =>
                    /\ frame[f].queriesIssued = 0
                    /\ q.wheres = IF o.filter.mode = "sync"
                                  THEN <<EqualityClause(o, v), HookClause(o)>>
                                  ELSE <<EqualityClause(o, v)>>
               /\ frame[f].queriesIssued = 1 =>
                    frame[f].executed.wheres = <<EqualityClause(o, v), HookClause(o)>>
               /\ (Done(f) /\ frame[f].rule = "unique") =>
                    (field[f].reports = <<>>) =
                        ~(\E r \in store : ValueMatches(r, o, v) /\ FilterAdmits(r, o))
               /\ (Done(f) /\ frame[f].rule = "exists") =>
                    (field[f].reports = <<>>) =
                        (\E r \in store : ValueMatches(r, o, v) /\ FilterAdmits(r, o))

\* The stored rows with the value are all excluded by the hooks: the unique
\* check (its hook asynchronous) has passed, the exists check has reported
C7_Witness ==
    \E f, g \in Fields :
        /\ Done(f) /\ IsOptions(f) /\ ValidOnEntry(f) /\ frame[f].rule = "unique"
        /\ frame[f].callbackOrOptions.filter.mode = "async"
        /\ OnlyMatchesExcluded(frame[f].callbackOrOptions, field[f].value)
        /\ field[f].reports = <<>>
        /\ Done(g) /\ IsOptions(g) /\ ValidOnEntry(g) /\ frame[g].rule = "exists"
        /\ frame[g].callbackOrOptions.filter.mode = "sync"
        /\ OnlyMatchesExcluded(frame[g].callbackOrOptions, field[g].value)
        /\ field[g].reports = <<ExistsReport>>

\* The store holds the value of field f in another letter case only
DiffersOnlyInCase(f) ==
    /\ \E r \in store : r.email # field[f].value /\ lower(r.email) = lower(field[f].value)
    /\ \A r \in store : r.email # field[f].value

PlainOptions(f, rule, ci) ==
    /\ Started(f) /\ IsOptions(f) /\ ValidOnEntry(f) /\ frame[f].rule = rule
    /\ frame[f].callbackOrOptions.caseInsensitive = ci
    /\ frame[f].callbackOrOptions.filter.mode = "none"

(***************************************************************************)
(* C8: caseInsensitive is taken per invocation.  Each invocation's         *)
(* equality clause is where(column, value) or, with caseInsensitive true,  *)
(* lower(column) = lower(value), whatever the other field's options say.   *)
(* On a case-sensitive store that holds the input in another letter case   *)
(* only, the field without the flag finds no row (unique passes, exists    *)
(* reports) and the field with the flag finds one (unique reports, exists  *)
(* passes).                                                                *)
(***************************************************************************)
C8_CaseInsensitivePerField ==
    \A f \in Fields :
        (IsOptions(f) /\ ValidOnEntry(f))
        => /\ frame[f].queriesIssued = 1 =>
                frame[f].executed.wheres[1] =
                    EqualityClause(frame[f].callbackOrOptions, field[f].value)
           /\ (Done(f) /\ ~collationCI /\ DiffersOnlyInCase(f)) =>
                /\ PlainOptions(f, "unique", FALSE) => field[f].reports = <<>>
                /\ PlainOptions(f, "unique", TRUE) => field[f].reports = <<UniqueReport>>
                /\ PlainOptions(f, "exists", FALSE) => field[f].reports = <<ExistsReport>>
                /\ PlainOptions(f, "exists", TRUE) => field[f].reports = <<>>

\* The test's schema: username without the flag passes, email with the flag
\* is reported, on the same case-sensitive store
C8_Witness ==
    /\ ~collationCI
    /\ Done("username") /\ PlainOptions("username", "unique", FALSE)
    /\ Done("email") /\ PlainOptions("email", "unique", TRUE)
    /\ DiffersOnlyInCase("username") /\ DiffersOnlyInCase("email")
    /\ field["username"].reports = <<>>
    /\ field["email"].reports = <<UniqueReport>>

Suspended(f) == frame[f].pc \in {"await_callback", "await_filter", "await_first"}

(***************************************************************************)
(* C9 as stated: an options-variant invocation is suspended at one point   *)
(* only, the database round trip query.first(), and so has yielded at most *)
(* once.                                                                   *)
(***************************************************************************)
C9_SuspendsOnlyAtFirst ==
    \A f \in Fields :
        IsOptions(f)
        => /\ Suspended(f) => frame[f].pc = "await_first"
           /\ frame[f].yields <= 1

(***************************************************************************)
(* C9 as amended: an options-variant invocation on a valid field suspends  *)
(* at two points in this order: first at `await filter?.(...)`, which it   *)
(* reaches with no query issued whether or not a filter hook is supplied,  *)
(* and then at the database round trip `await query.first()`; it yields    *)
(* nowhere else, and it has yielded twice when it returns.  The callback   *)
(* variant suspends once, at the await of the callback, and an invocation  *)
(* on an invalid field never suspends.                                     *)
(***************************************************************************)
C9_SuspendsAtFilterThenFirst ==
    \A f \in Fields :
        /\ (Started(f) /\ ~ValidOnEntry(f)) => frame[f].yields = 0
        /\ (IsCallback(f) /\ ValidOnEntry(f)) =>
              /\ frame[f].pc \in {"await_callback", "done", "failed"}
              /\ frame[f].yields = 1
        /\ (IsOptions(f) /\ ValidOnEntry(f)) =>
              /\ frame[f].pc \in {"await_filter", "await_first", "done", "failed"}
              /\ frame[f].pc = "await_filter" =>
                    frame[f].yields = 1 /\ frame[f].queriesIssued = 0
              /\ frame[f].pc = "await_first" =>
                    frame[f].yields = 2 /\ frame[f].queriesIssued = 1
              /\ frame[f].pc = "done" =>
                    frame[f].yields = 2 /\ frame[f].queriesIssued = 1
              /\ frame[f].pc = "failed" =>
                    frame[f].yields = frame[f].queriesIssued +
                        (IF frame[f].fault = "FilterError"
                            /\ frame[f].callbackOrOptions.filter.mode = "sync"
                         THEN 0 ELSE 1)

\* An invocation without a filter hook is suspended before its query is
\* issued, while the other field's invocation waits for the database
C9_Witness ==
    \E f, g \in Fields :
        /\ IsOptions(f) /\ ValidOnEntry(f)
        /\ frame[f].callbackOrOptions.filter.mode = "none"
        /\ frame[f].pc = "await_filter" /\ frame[f].queriesIssued = 0
        /\ IsOptions(g) /\ frame[g].pc = "await_first"

\* What the invocation on field f reports when it runs alone on this store
AloneReports(f) ==
    IF frame[f].callbackOrOptions.kind = "function"
    THEN IF frame[f].cbResult = <<FALSE>>
         THEN <<[message |-> messages[ruleName(frame[f].rule)], rule |-> ruleName(frame[f].rule)]>>
         ELSE <<>>
    ELSE IF frame[f].rule = "unique"
         THEN IF QueryReturnsRow(frame[f].callbackOrOptions, field[f].value)
              THEN <<UniqueReport>> ELSE <<>>
         ELSE IF QueryReturnsRow(frame[f].callbackOrOptions, field[f].value)
              THEN <<>> ELSE <<ExistsReport>>

C10_OwnQueryOwnField ==
    \A f \in Fields :
        /\ ~Started(f) => field[f] = NoField /\ frame[f] = NoFrame
        /\ Len(field[f].reports) = frame[f].reportCalls
        /\ (IsOptions(f) /\ ValidOnEntry(f)) =>
              /\ \A g \in Fields \ {f} :
                    (IsOptions(g) /\ ValidOnEntry(g)) => frame[g].query # frame[f].query
              /\ queries[frame[f].query].wheres[1] =
                    EqualityClause(frame[f].callbackOrOptions, field[f].value)
              /\ frame[f].queriesIssued = 1 =>
                    frame[f].executed.wheres[1] =
                        EqualityClause(frame[f].callbackOrOptions, field[f].value)
        /\ (Done(f) /\ ValidOnEntry(f)) => field[f].reports = AloneReports(f)

C10_ConfigurationKept ==
    \A f \in Fields :
        (Started(f) /\ frame'[f].pc # "idle")
        => /\ frame'[f].callbackOrOptions = frame[f].callbackOrOptions
           /\ frame'[f].rule = frame[f].rule
           /\ field'[f].value = field[f].value

(***************************************************************************)
(* C10: with invocations of the rules in flight at once for different      *)
(* fields over an unchanging store, under every interleaving of their      *)
(* suspension points each invocation has a query builder of its own that   *)
(* carries its own equality clause, reports on its own field only, and     *)
(* returns with the outcome it has when run alone; from its entry to its   *)
(* return the configuration it was given is not modified.                  *)
(***************************************************************************)
C10_SafeForConcurrentReuse ==
    []C10_OwnQueryOwnField /\ [][C10_ConfigurationKept]_vars

\* Two invocations of the same rule with the same options record wait for
\* the database at once, each with its own value in its own query
C10_Witness ==
    \E f, g \in Fields :
        /\ f # g
        /\ frame[f].pc = "await_first" /\ frame[g].pc = "await_first"
        /\ frame[f].rule = frame[g].rule
        /\ frame[f].callbackOrOptions = frame[g].callbackOrOptions
        /\ field[f].value # field[g].value
        /\ frame[f].executed # frame[g].executed

Terminal(f) ==
    \/ frame[f].pc = "done" /\ frame[f].reportCalls \in {0, 1} /\ frame[f].error = UNDEF
    \/ frame[f].pc = "failed" /\ frame[f].reportCalls = 0 /\ frame[f].error = frame[f].fault
                              /\ frame[f].error # UNDEF

(***************************************************************************)
(* C11: an invocation that has passed the isValid guard and issued its     *)
(* check (it waits for the callback, the filter hook or the database)      *)
(* always has a response it can resume on, and, the collaborators          *)
(* responding, eventually reaches a terminal state: returned with zero or  *)
(* one report, or failed with the error the collaborator raised.  No step  *)
(* of the rule cancels or abandons the check.                              *)
(***************************************************************************)
C11_IssuedCheckTerminates ==
    /\ [](\A f \in Fields : Suspended(f) => ENABLED Settles(f))
    /\ \A f \in Fields : Suspended(f) ~> Terminal(f)

\* Both fields' checks are issued and pending: one waits for the database,
\* the other for its callback
C11_Witness ==
    \E f, g \in Fields :
        /\ frame[f].pc = "await_first" /\ frame[f].queriesIssued = 1
        /\ frame[g].pc = "await_callback" /\ frame[g].callbackCalls = 1

=============================================================================
